---- MODULE Spec2Model ----
(***************************************************************************)
(* The development-event tracker of src/main.rs: a hyper service over a    *)
(* mysql_async pool.  GET /init resets the `events` table, POST /ingest    *)
(* inserts one event, GET /events lists events with optional filters.      *)
(*                                                                         *)
(* A request is a task of the (single threaded) tokio runtime; every       *)
(* `.await` of route_request is a point where other tasks run, so every    *)
(* action below is the code between two awaits.  The MySQL server is the   *)
(* variable db; each statement is executed atomically by the server.       *)
(***************************************************************************)
EXTENDS Integers, Sequences, FiniteSets, TLC

(* ------------------------------ bounds -------------------------------- *)

\* Requests of a run; all of them may be in flight at the same time.
MaxReq == 3
\* Ceiling of the pool, PoolConstraints::new(5, 10), scaled down so that
\* MaxReq requests can exhaust it.
PoolMax == 2

Req == 1..MaxReq

(* --------------------------- serde_json::Value ------------------------ *)

\* A JSON value is a tree; every node has the same four fields so that any
\* two values can be compared.
JNode(t, n, s, kids) == [t |-> t, n |-> n, s |-> s, kids |-> kids]
JNull == JNode("null", 0, "", <<>>)
JBool(b) == JNode("bool", IF b THEN 1 ELSE 0, "", <<>>)
JNum(n) == JNode("num", n, "", <<>>)
JStr(s) == JNode("str", 0, s, <<>>)
JArr(items) == JNode("arr", 0, "", items)
JMember(k, v) == JNode("member", 0, k, <<v>>)
JObj(members) == JNode("obj", 0, "", members)

\* JSON text is a sequence of lexemes.
Tok(k, n, s) == [k |-> k, n |-> n, s |-> s]
P(k) == Tok(k, 0, "")

RECURSIVE to_string(_), JoinItems(_)

\* The items of an array or the members of an object, comma separated.
JoinItems(items) ==
    IF items = <<>> THEN <<>>
    ELSE to_string(items[1])
         \o (IF Len(items) > 1 THEN <<P(",")>> \o JoinItems(Tail(items))
             ELSE <<>>)

\* serde_json::to_string of a Value: compact JSON text.
to_string(v) ==
    CASE v.t = "null" -> <<P("null")>>
      [] v.t = "bool" -> <<P(IF v.n = 1 THEN "true" ELSE "false")>>
      [] v.t = "num" -> <<Tok("num", v.n, "")>>
      [] v.t = "str" -> <<Tok("str", 0, v.s)>>
      [] v.t = "arr" -> <<P("[")>> \o JoinItems(v.kids) \o <<P("]")>>
      [] v.t = "obj" -> <<P("{")>> \o JoinItems(v.kids) \o <<P("}")>>
      [] v.t = "member" ->
            <<Tok("str", 0, v.s), P(":")>> \o to_string(v.kids[1])

ParseFail == [ok |-> FALSE, val |-> JNull, rest |-> <<>>]
ParseOk(v, rest) == [ok |-> TRUE, val |-> v, rest |-> rest]

RECURSIVE ParseValue(_), ParseElems(_, _), ParseMembers(_, _)

\* One JSON value at the head of the text; rest is the text after it.
ParseValue(ts) ==
    IF ts = <<>> THEN ParseFail
    ELSE LET h == Head(ts)
             r == Tail(ts)
         IN CASE h.k = "null" -> ParseOk(JNull, r)
              [] h.k = "true" -> ParseOk(JBool(TRUE), r)
              [] h.k = "false" -> ParseOk(JBool(FALSE), r)
              [] h.k = "num" -> ParseOk(JNum(h.n), r)
              [] h.k = "str" -> ParseOk(JStr(h.s), r)
              [] h.k = "[" ->
                    IF r # <<>> /\ Head(r).k = "]"
                    THEN ParseOk(JArr(<<>>), Tail(r))
                    ELSE ParseElems(r, <<>>)
              [] h.k = "{" ->
                    IF r # <<>> /\ Head(r).k = "}"
                    THEN ParseOk(JObj(<<>>), Tail(r))
                    ELSE ParseMembers(r, <<>>)
              [] OTHER -> ParseFail

\* The elements of an array after "[", acc the elements read so far.
ParseElems(ts, acc) ==
    LET e == ParseValue(ts)
    IN IF ~e.ok \/ e.rest = <<>> THEN ParseFail
       ELSE IF Head(e.rest).k = ","
            THEN ParseElems(Tail(e.rest), Append(acc, e.val))
       ELSE IF Head(e.rest).k = "]"
            THEN ParseOk(JArr(Append(acc, e.val)), Tail(e.rest))
       ELSE ParseFail

\* The members of an object after "{", acc the members read so far.
ParseMembers(ts, acc) ==
    IF Len(ts) < 2 \/ ts[1].k # "str" \/ ts[2].k # ":" THEN ParseFail
    ELSE LET e == ParseValue(SubSeq(ts, 3, Len(ts)))
             m == JMember(ts[1].s, e.val)
         IN IF ~e.ok \/ e.rest = <<>> THEN ParseFail
            ELSE IF Head(e.rest).k = ","
                 THEN ParseMembers(Tail(e.rest), Append(acc, m))
            ELSE IF Head(e.rest).k = "}"
                 THEN ParseOk(JObj(Append(acc, m)), Tail(e.rest))
            ELSE ParseFail

\* serde_json::from_str::<Value>: the whole text must be one value.
from_str(ts) ==
    LET p == ParseValue(ts)
    IN IF p.ok /\ p.rest = <<>> THEN [ok |-> TRUE, val |-> p.val]
       ELSE [ok |-> FALSE, val |-> JNull]

(* --------------------------- DevelopmentEvent ------------------------- *)

DevelopmentEvent(id, timestamp, source, event_type, data) ==
    [id |-> id, timestamp |-> timestamp, source |-> source,
     event_type |-> event_type, data |-> data]

NoEvent == DevelopmentEvent(0, "", "", "", JNull)

\* The members of object v named k.
Members(v, k) == SelectSeq(v.kids, LAMBDA m : m.s = k)

\* Object v has exactly one member k, and its value has a type of types.
Field(v, k, types) ==
    /\ Len(Members(v, k)) = 1
    /\ Members(v, k)[1].kids[1].t \in types

FieldValue(v, k) == Members(v, k)[1].kids[1]

AnyJson == {"null", "bool", "num", "str", "arr", "obj"}

\* serde_json::from_slice::<DevelopmentEvent>, as #[derive(Deserialize)]
\* reads the struct: from an object with the four required fields (id is
\* optional, unknown members are skipped, a repeated field is an error), or
\* from an array of the five fields in declaration order.
from_slice(bytes) ==
    LET p == from_str(bytes)
        v == p.val
        bad == [ok |-> FALSE, event |-> NoEvent]
    IN IF ~p.ok THEN bad
       ELSE IF v.t = "obj"
       THEN IF /\ Len(Members(v, "id")) = 0 \/ Field(v, "id", {"num"})
               /\ Field(v, "timestamp", {"str"})
               /\ Field(v, "source", {"str"})
               /\ Field(v, "event_type", {"str"})
               /\ Field(v, "data", AnyJson)
            THEN [ok |-> TRUE,
                  event |-> DevelopmentEvent(
                      IF Len(Members(v, "id")) = 0 THEN 0
                      ELSE FieldValue(v, "id").n,
                      FieldValue(v, "timestamp").s,
                      FieldValue(v, "source").s,
                      FieldValue(v, "event_type").s,
                      FieldValue(v, "data"))]
            ELSE bad
       ELSE IF v.t = "arr"
       THEN IF /\ Len(v.kids) = 5
               /\ v.kids[1].t = "num"
               /\ \A i \in 2..4 : v.kids[i].t = "str"
            THEN [ok |-> TRUE,
                  event |-> DevelopmentEvent(v.kids[1].n, v.kids[2].s,
                                             v.kids[3].s, v.kids[4].s,
                                             v.kids[5])]
            ELSE bad
       ELSE bad

(* ------------------------------ responses ----------------------------- *)

\* An HTTP response: the status and the JSON (or text) body.
Body(kind, msg, id, events) ==
    [kind |-> kind, msg |-> msg, id |-> id, events |-> events]
Response(status, body) == [status |-> status, body |-> body]

NoResponse == Response(0, Body("none", "", 0, <<>>))

\* response_build: 200 with the given body.
response_build(body) == Response(200, body)

\* AppError: the variant and the detail it carries (which is only logged).
AppError(kind, detail) == [kind |-> kind, detail |-> detail]
NoError == AppError("none", "")

\* A mapper that reports a malformed body as a server fault.
to_response_json500(e) ==
    LET pair == CASE e.kind = "DbError" -> <<500, "Database error">>
                  [] e.kind = "JsonError" -> <<500, "Internal server error">>
                  [] e.kind = "HyperError" -> <<400, "Request body error">>
                  [] e.kind = "NotFound" -> <<404, "Not Found">>
                  [] e.kind = "Internal" -> <<500, "Internal server error">>
    IN Response(pair[1], Body("error", pair[2], 0, <<>>))

\* AppError::to_response.
to_response(e) ==
    LET pair == CASE e.kind = "DbError" -> <<500, "Database error">>
                  [] e.kind = "JsonError" -> <<400, "Invalid JSON format">>
                  [] e.kind = "HyperError" -> <<400, "Request body error">>
                  [] e.kind = "NotFound" -> <<404, "Not Found">>
                  [] e.kind = "Internal" -> <<500, "Internal server error">>
    IN Response(pair[1], Body("error", pair[2], 0, <<>>))

(* ------------------------- the `events` table ------------------------- *)

\* The database: whether table `events` exists, its rows, and the value
\* AUTO_INCREMENT gives the next row.
Database(exists, rows, nextId) ==
    [exists |-> exists, rows |-> rows, nextId |-> nextId]

Row(id, timestamp, source, event_type, data) ==
    [id |-> id, timestamp |-> timestamp, source |-> source,
     event_type |-> event_type, data |-> data]

\* The outcome of a statement: the error (or none), the database after it,
\* the id the connection reports and the result sets it may return.
Outcome(err, d, last_id, results) ==
    [err |-> err, db |-> d, last_id |-> last_id, results |-> results]

DbFailure(detail, d) == Outcome(AppError("DbError", detail), d, 0, {})

\* DROP TABLE events, without IF EXISTS.
DropTableStrict(d) ==
    IF d.exists THEN Outcome(NoError, Database(FALSE, {}, 1), 0, {})
    ELSE DbFailure("NoSuchTable", d)

\* DROP TABLE IF EXISTS events.
DropTable(d) == Outcome(NoError, Database(FALSE, {}, 1), 0, {})

\* CREATE TABLE events (id INT NOT NULL AUTO_INCREMENT, ...).
CreateTable(d) ==
    IF d.exists THEN DbFailure("TableExists", d)
    ELSE Outcome(NoError, Database(TRUE, {}, 1), 0, {})

\* An AUTO_INCREMENT counter that does not advance.
NextAutoIdStuck(n) == n

\* AUTO_INCREMENT: the counter after a row took value n.
NextAutoId(n) == n + 1

\* INSERT INTO events (timestamp, source, event_type, data) VALUES (...).
InsertRow(d, timestamp, source, event_type, data) ==
    IF ~d.exists THEN DbFailure("NoSuchTable", d)
    ELSE Outcome(NoError,
                 Database(TRUE,
                          d.rows \cup {Row(d.nextId, timestamp, source,
                                           event_type, data)},
                          NextAutoId(d.nextId)),
                 d.nextId, {})

\* Conn::last_insert_id: None when the server reported 0.
last_insert_id(o) == [some |-> o.last_id # 0, id |-> o.last_id]

(* ------------------------------ GET /events --------------------------- *)

\* The bytes of the strings used as timestamps.
Bytes(s) ==
    CASE s = "10" -> <<49, 48>>
      [] s = "2" -> <<50>>
      [] s = "9" -> <<57>>
      [] OTHER -> <<>>

RECURSIVE BytesLess(_, _)
\* Lexicographic order of byte strings.
BytesLess(a, b) ==
    IF b = <<>> THEN FALSE
    ELSE IF a = <<>> THEN TRUE
    ELSE IF a[1] # b[1] THEN a[1] < b[1]
    ELSE BytesLess(Tail(a), Tail(b))

\* The order of two VARCHAR values.
StrLess(s, t) == BytesLess(Bytes(s), Bytes(t))

\* A query string is the sequence of its decoded (key, value) pairs, as
\* url::form_urlencoded::parse yields them; no query string yields none.
\* Collected into a HashMap, the last pair of a key is the one kept.
query_params_map(q) ==
    [k \in {q[i][1] : i \in DOMAIN q} |->
        LET last == CHOOSE i \in DOMAIN q :
                        /\ q[i][1] = k
                        /\ \A j \in DOMAIN q : q[j][1] = k => j <= i
        IN q[last][2]]

\* HashMap::get: an Option, here a sequence of at most one value.
Get(m, k) == IF k \in DOMAIN m THEN <<m[k]>> ELSE <<>>

\* A filter that keeps the empty string.
KeepEmpty(opt) == opt

\* Option::filter(|s| !s.is_empty()).
NonEmpty(opt) == SelectSeq(opt, LAMBDA s : s # "")

\* The bound parameters, in the order they are pushed.
BuildParams(m) ==
    LET s == NonEmpty(Get(m, "source"))
        t == NonEmpty(Get(m, "event_type"))
    IN (IF s # <<>> THEN << <<"source", s[1]>> >> ELSE <<>>)
       \o (IF t # <<>> THEN << <<"event_type", t[1]>> >> ELSE <<>>)

\* The columns of the WHERE clauses ("col = :col"), joined by AND.
BuildWhere(m) ==
    (IF NonEmpty(Get(m, "source")) # <<>> THEN <<"source">> ELSE <<>>)
    \o (IF NonEmpty(Get(m, "event_type")) # <<>> THEN <<"event_type">>
        ELSE <<>>)

\* The value bound to the named parameter.
Bound(params, name) ==
    params[CHOOSE i \in DOMAIN params : params[i][1] = name][2]

\* Rows sorted by timestamp, ascending.
AscByTimestamp(s) ==
    \A i, j \in DOMAIN s : i < j => ~StrLess(s[j].timestamp, s[i].timestamp)

\* ORDER BY timestamp DESC: no row comes before a row with a greater
\* timestamp; rows with equal timestamps come in any order.
DescByTimestamp(s) ==
    \A i, j \in DOMAIN s : i < j => ~StrLess(s[i].timestamp, s[j].timestamp)

\* The result sets the server may return for a set of rows.
Orderings(S) ==
    {s \in [1..Cardinality(S) -> S] :
        /\ \A i, j \in DOMAIN s : i # j => s[i] # s[j]
        /\ DescByTimestamp(s)}

\* SELECT id, timestamp, source, event_type, data FROM events
\* [WHERE col = :col AND ...] ORDER BY timestamp DESC.
SelectRows(d, where, params) ==
    IF ~d.exists THEN DbFailure("NoSuchTable", d)
    ELSE Outcome(NoError, d, 0,
                 Orderings({row \in d.rows :
                               \A i \in DOMAIN where :
                                   row[where[i]] = Bound(params, where[i])}))

\* The closure given to map: a row becomes an event, its data re-parsed,
\* Null when it does not parse.
RowToEvent(row) ==
    LET p == from_str(row.data)
    IN DevelopmentEvent(row.id, row.timestamp, row.source, row.event_type,
                        IF p.ok THEN p.val ELSE JNull)

\* The parameters of the INSERT with source and event_type exchanged.
IngestParamsSwapped(event) ==
    [timestamp |-> event.timestamp, source |-> event.event_type,
     event_type |-> event.source, data |-> to_string(event.data)]

\* params! of the INSERT: the three strings and data as JSON text.
IngestParams(event) ==
    [timestamp |-> event.timestamp, source |-> event.source,
     event_type |-> event.event_type, data |-> to_string(event.data)]

(* ------------------------------- requests ----------------------------- *)

\* The payload of the round-trip example: {"a":1,"b":[true,null]}.
DataA == JObj(<<JMember("a", JNum(1)),
                JMember("b", JArr(<<JBool(TRUE), JNull>>))>>)

\* The body a client sends for an event.
EventBody(timestamp, source, event_type, data) ==
    to_string(JObj(<<JMember("timestamp", JStr(timestamp)),
                     JMember("source", JStr(source)),
                     JMember("event_type", JStr(event_type)),
                     JMember("data", data)>>))

\* The events clients submit.
Sent ==
    {DevelopmentEvent(0, "2", "ci", "build", DataA),
     DevelopmentEvent(0, "10", "ci", "test", JNull)}

WellFormedBodies ==
    {EventBody(e.timestamp, e.source, e.event_type, e.data) : e \in Sent}

\* {"timestamp":"t"}: source, event_type and data are missing.
MalformedBodies ==
    {to_string(JObj(<<JMember("timestamp", JStr("t"))>>))}

Queries ==
    {<<>>,
     << <<"source", "ci">> >>,
     << <<"source", "">> >>,
     << <<"source", "ci">>, <<"event_type", "build">> >>}

Request(method, path, body, query) ==
    [method |-> method, path |-> path, body |-> body, query |-> query]

\* The requests clients send.
Inputs ==
    {Request("OPTIONS", "/ingest", <<>>, <<>>),
     Request("GET", "/unknown", <<>>, <<>>),
     Request("GET", "/init", <<>>, <<>>)}
    \cup {Request("POST", "/ingest", b, <<>>) :
             b \in WellFormedBodies \cup MalformedBodies}
    \cup {Request("GET", "/events", <<>>, q) : q \in Queries}

\* The states the database can be in when the server starts: no table, an
\* empty table, a table with a row of an earlier run.
InitialDatabases ==
    {Database(FALSE, {}, 1),
     Database(TRUE, {}, 1),
     Database(TRUE, {Row(1, "9", "cli", "test", to_string(JNull))}, 2)}

VARIABLES
    req,       \* req[r]: the request in slot r and how far its handler is
    db,        \* the database
    inUse,     \* connections the pool has handed out
    acked,     \* the ingests acknowledged since the table was last dropped
    issued,    \* every identifier returned by an ingest, in order
    resetRun   \* /init requests that last succeeded in a row, each alone

vars == <<req, db, inUse, acked, issued, resetRun>>

Idle ==
    [pc |-> "idle", method |-> "", path |-> "", body |-> <<>>,
     query |-> <<>>, conn |-> FALSE, solo |-> FALSE, after |-> 0,
     resp |-> NoResponse, err |-> NoError]

\* The arm of the match in route_request.
Route(method, path) ==
    CASE method = "OPTIONS" /\ path \in {"/ingest", "/events"} -> "options"
      [] method = "GET" /\ path = "/" -> "root"
      [] method = "GET" /\ path = "/init" -> "init"
      [] method = "POST" /\ path = "/ingest" -> "ingest"
      [] method = "GET" /\ path = "/events" -> "events"
      [] OTHER -> "not_found"

Handler(rq) == Route(rq.method, rq.path)

\* Result<Response<Body>, AppError>.
Ok(resp) == [err |-> NoError, resp |-> resp]
Err(e) == [err |-> e, resp |-> NoResponse]

\* handle_request: the response of a result.
handle_request(result) ==
    IF result.err.kind = "none" THEN result.resp
    ELSE to_response(result.err)

\* The handler returns: its connection, if any, is dropped and the
\* response is made.
Finished(rq, result) ==
    [rq EXCEPT !.pc = "done", !.conn = FALSE,
               !.resp = handle_request(result), !.err = result.err]

\* The pool after a handler holding a connection returned.
Release(n) == n - 1

InFlight(q) == req[q].pc \notin {"idle", "done"}

\* The failure of a statement or of get_conn when the server cannot be
\* reached.
Unreachable == AppError("DbError", "Unreachable")

Init ==
    /\ req = [r \in Req |-> Idle]
    /\ db \in InitialDatabases
    /\ inUse = 0
    /\ acked = <<>>
    /\ issued = <<>>
    /\ resetRun = 0

\* A request arrives and route_request runs to its first await.  Requests
\* are numbered in the order they arrive.
Start(r) ==
    /\ req[r].pc = "idle"
    /\ \A q \in Req : q < r => req[q].pc # "idle"
    /\ \E in \in Inputs :
        LET rq == [Idle EXCEPT !.method = in.method, !.path = in.path,
                               !.body = in.body, !.query = in.query,
                               !.solo = \A q \in Req : ~InFlight(q),
                               !.after = resetRun]
            h == Handler(rq)
            next ==
                CASE h = "options" ->
                        Finished(rq, Ok(response_build(
                            Body("status", "ok", 0, <<>>))))
                  [] h = "root" ->
                        Finished(rq, Ok(Response(200,
                            Body("text", "Development Event Tracker API",
                                 0, <<>>))))
                  [] h = "not_found" ->
                        Finished(rq, Err(AppError("NotFound", "")))
                  [] OTHER -> [rq EXCEPT !.pc = "conn"]
        IN /\ req' = [q \in Req |->
                        IF q = r THEN next
                        ELSE IF InFlight(q)
                             THEN [req[q] EXCEPT !.solo = FALSE]
                             ELSE req[q]]
           /\ resetRun' = IF h = "init" THEN resetRun ELSE 0
    /\ UNCHANGED <<db, inUse, acked, issued>>

\* pool.get_conn().await: waits while the pool is at its ceiling.
GetConn(r) ==
    /\ req[r].pc = "conn"
    /\ inUse < PoolMax
    /\ \E ok \in BOOLEAN :
        IF ok
        THEN /\ req' = [req EXCEPT ![r].conn = TRUE,
                           ![r].pc = CASE Handler(req[r]) = "init" -> "drop"
                                       [] Handler(req[r]) = "ingest" -> "body"
                                       [] OTHER -> "select"]
             /\ inUse' = inUse + 1
             /\ UNCHANGED resetRun
        ELSE /\ req' = [req EXCEPT ![r] = Finished(req[r], Err(Unreachable))]
             /\ resetRun' = IF Handler(req[r]) = "init" THEN 0 ELSE resetRun
             /\ UNCHANGED inUse
    /\ UNCHANGED <<db, acked, issued>>

\* GET /init: "DROP TABLE IF EXISTS events;".ignore(&mut conn).await.
InitDrop(r) ==
    /\ req[r].pc = "drop"
    /\ \E ok \in BOOLEAN :
        LET o == IF ok THEN DropTable(db) ELSE Outcome(Unreachable, db, 0, {})
        IN IF o.err.kind = "none"
           THEN /\ req' = [req EXCEPT ![r].pc = "create"]
                /\ db' = o.db
                /\ acked' = <<>>
                /\ UNCHANGED <<inUse, resetRun>>
           ELSE /\ req' = [req EXCEPT ![r] = Finished(req[r], Err(o.err))]
                /\ inUse' = Release(inUse)
                /\ resetRun' = 0
                /\ UNCHANGED <<db, acked>>
    /\ UNCHANGED issued

\* GET /init: "CREATE TABLE events (...);".ignore(&mut conn).await, then the
\* response.
InitCreate(r) ==
    /\ req[r].pc = "create"
    /\ \E ok \in BOOLEAN :
        LET o == IF ok THEN CreateTable(db)
                 ELSE Outcome(Unreachable, db, 0, {})
        IN /\ db' = o.db
           /\ IF o.err.kind = "none"
              THEN /\ req' = [req EXCEPT ![r] = Finished(req[r],
                                Ok(response_build(
                                    Body("status", "initialized", 0, <<>>))))]
                   /\ resetRun' = IF req[r].solo THEN resetRun + 1 ELSE 0
              ELSE /\ req' = [req EXCEPT ![r] = Finished(req[r], Err(o.err))]
                   /\ resetRun' = 0
    /\ inUse' = Release(inUse)
    /\ UNCHANGED <<acked, issued>>

\* POST /ingest: hyper::body::to_bytes(req).await returns the body, which is
\* parsed; the handler holds its connection meanwhile.
ReadBody(r) ==
    /\ req[r].pc = "body"
    /\ IF from_slice(req[r].body).ok
       THEN /\ req' = [req EXCEPT ![r].pc = "insert"]
            /\ UNCHANGED inUse
       ELSE /\ req' = [req EXCEPT ![r] = Finished(req[r],
                            Err(AppError("JsonError", "syntax")))]
            /\ inUse' = Release(inUse)
    /\ UNCHANGED <<db, acked, issued, resetRun>>

\* POST /ingest: the transport fails while the body is read.
BodyError(r) ==
    /\ req[r].pc = "body"
    /\ req' = [req EXCEPT ![r] = Finished(req[r],
                    Err(AppError("HyperError", "transport")))]
    /\ inUse' = Release(inUse)
    /\ UNCHANGED <<db, acked, issued, resetRun>>

\* POST /ingest: the INSERT, last_insert_id and the response.
IngestInsert(r) ==
    /\ req[r].pc = "insert"
    /\ \E ok \in BOOLEAN :
        LET event == from_slice(req[r].body).event
            p == IngestParams(event)
            o == IF ok THEN InsertRow(db, p.timestamp, p.source,
                                      p.event_type, p.data)
                 ELSE Outcome(Unreachable, db, 0, {})
            last == last_insert_id(o)
        IN /\ db' = o.db
           /\ IF o.err.kind # "none"
              THEN /\ req' = [req EXCEPT ![r] = Finished(req[r], Err(o.err))]
                   /\ UNCHANGED <<acked, issued>>
              ELSE IF ~last.some
              THEN /\ req' = [req EXCEPT ![r] = Finished(req[r],
                        Err(AppError("Internal",
                                     "Could not retrieve last insert ID")))]
                   /\ UNCHANGED <<acked, issued>>
              ELSE /\ req' = [req EXCEPT ![r] = Finished(req[r],
                        Ok(response_build(
                            Body("status", "ingested", last.id, <<>>))))]
                   /\ acked' = Append(acked,
                        [id |-> last.id, body |-> req[r].body,
                         solo |-> req[r].solo])
                   /\ issued' = Append(issued, last.id)
    /\ inUse' = Release(inUse)
    /\ UNCHANGED resetRun

\* GET /events: the SELECT built from the query string, the rows mapped to
\* events, and the response.
EventsSelect(r) ==
    /\ req[r].pc = "select"
    /\ \E ok \in BOOLEAN :
        LET m == query_params_map(req[r].query)
            o == IF ok THEN SelectRows(db, BuildWhere(m), BuildParams(m))
                 ELSE Outcome(Unreachable, db, 0, {})
        IN IF o.err.kind # "none"
           THEN req' = [req EXCEPT ![r] = Finished(req[r], Err(o.err))]
           ELSE \E rows \in o.results :
                   req' = [req EXCEPT ![r] = Finished(req[r],
                        Ok(response_build(
                            Body("events", "", 0,
                                 [i \in DOMAIN rows |->
                                     RowToEvent(rows[i])]))))]
    /\ inUse' = Release(inUse)
    /\ UNCHANGED <<db, acked, issued, resetRun>>

Next ==
    \E r \in Req :
        \/ Start(r)
        \/ GetConn(r)
        \/ InitDrop(r)
        \/ InitCreate(r)
        \/ ReadBody(r)
        \/ BodyError(r)
        \/ IngestInsert(r)
        \/ EventsSelect(r)

Spec == Init /\ [][Next]_vars

\* What the scheduling guarantees: the runtime resumes a task whose await
\* is ready, the server completes every statement, and the pool hands a
\* released connection to a waiting get_conn.  Nothing makes a client send
\* its body.
Fairness ==
    \A r \in Req :
        /\ SF_vars(GetConn(r))
        /\ WF_vars(InitDrop(r))
        /\ WF_vars(InitCreate(r))
        /\ WF_vars(IngestInsert(r))
        /\ WF_vars(EventsSelect(r))

FairSpec == Spec /\ Fairness

(* ------------------------------- properties --------------------------- *)

IsDone(r) == req[r].pc = "done"
Succeeded(r) == IsDone(r) /\ req[r].resp.status = 200
Listed(r) == req[r].resp.body.events

\* Request r finishes in this step.
Finishes(r) == req[r].pc # "done" /\ req'[r].pc = "done"

\* The query string names no filter.
Unfiltered(q) == \A i \in DOMAIN q : q[i][1] \notin {"source", "event_type"}

\* The values the query string gives for key k.
ParamValues(q, k) == {q[i][2] : i \in {j \in DOMAIN q : q[j][1] = k}}

\* The rows a listing with query string q is to return.
Wanted(q, rows) ==
    {row \in rows :
        /\ \A v \in ParamValues(q, "source") : v # "" => row.source = v
        /\ \A v \in ParamValues(q, "event_type") :
               v # "" => row.event_type = v}

\* C1: an unfiltered listing that succeeds holds, for every ingest
\* acknowledged since the table was last dropped, exactly one event with the
\* acknowledged id, and that event carries the submitted timestamp, source,
\* event_type and data.
C1_RoundTrip ==
    [][\A r \in Req :
          (/\ req[r].pc = "select"
           /\ Finishes(r)
           /\ req'[r].resp.status = 200
           /\ Unfiltered(req[r].query))
          => \A k \in DOMAIN acked :
               LET out == req'[r].resp.body.events
                   hits == {i \in DOMAIN out : out[i].id = acked[k].id}
               IN /\ Cardinality(hits) = 1
                  /\ \E e \in Sent :
                        /\ acked[k].body = EventBody(e.timestamp, e.source,
                                                     e.event_type, e.data)
                        /\ \A i \in hits :
                              out[i] = DevelopmentEvent(acked[k].id,
                                  e.timestamp, e.source, e.event_type,
                                  e.data)]_vars

\* Two ingests that overlapped other requests were acknowledged and an
\* unfiltered listing returned both, the one with data {"a":1,"b":[true,null]}
\* unchanged.
C1_Witness ==
    \E r \in Req :
        /\ Succeeded(r)
        /\ Handler(req[r]) = "events"
        /\ Unfiltered(req[r].query)
        /\ Len(acked) = 2
        /\ \A k \in DOMAIN acked :
              /\ ~acked[k].solo
              /\ \E i \in DOMAIN Listed(r) : Listed(r)[i].id = acked[k].id
        /\ \E i \in DOMAIN Listed(r) : Listed(r)[i].data = DataA

\* C2: a listing that succeeds returns exactly the stored rows that match
\* every filter that is present and not empty, each once.
C2_FilterCorrect ==
    [][\A r \in Req :
          (/\ req[r].pc = "select"
           /\ Finishes(r)
           /\ req'[r].resp.status = 200)
          => LET out == req'[r].resp.body.events
                 want == Wanted(req[r].query, db.rows)
             IN /\ Len(out) = Cardinality(want)
                /\ {<<out[i].id, out[i].timestamp, out[i].source,
                      out[i].event_type, to_string(out[i].data)>> :
                        i \in DOMAIN out}
                   = {<<row.id, row.timestamp, row.source, row.event_type,
                        row.data>> : row \in want}]_vars

\* A listing filtered by source and event_type returned the one matching
\* row of a table of three.
C2_Witness ==
    \E r \in Req :
        /\ Succeeded(r)
        /\ req[r].query = << <<"source", "ci">>, <<"event_type", "build">> >>
        /\ Len(Listed(r)) = 1
        /\ Listed(r)[1].source = "ci"
        /\ Listed(r)[1].event_type = "build"
        /\ Cardinality(db.rows) = 3

\* C3: in every listing no event comes before an event with a greater
\* timestamp string.
C3_Ordering ==
    \A r \in Req :
        (Succeeded(r) /\ Handler(req[r]) = "events")
        => \A i, j \in DOMAIN Listed(r) :
              i < j => ~StrLess(Listed(r)[i].timestamp,
                                Listed(r)[j].timestamp)

\* A listing returned timestamp "2" before timestamp "10": the order is
\* that of the strings, not of the numbers.
C3_Witness ==
    \E r \in Req :
        /\ Succeeded(r)
        /\ Len(Listed(r)) = 2
        /\ Listed(r)[1].timestamp = "2"
        /\ Listed(r)[2].timestamp = "10"

\* C4 as stated: every ingest returns an identifier greater than every
\* identifier returned before it, over the whole run.
C4_IdsIncreaseAlways ==
    \A i, j \in DOMAIN issued : i < j => issued[i] < issued[j]

\* C4 as amended: among the ingests since the table was last dropped the
\* identifiers increase strictly in the order of the inserts, and no two
\* stored rows share an identifier.
C4_IdsIncreaseBetweenResets ==
    /\ \A i, j \in DOMAIN acked : i < j => acked[i].id < acked[j].id
    /\ \A k \in DOMAIN acked :
          Cardinality({row \in db.rows : row.id = acked[k].id}) = 1
    /\ \A x, y \in db.rows : x.id = y.id => x = y

\* Two ingests were acknowledged with no drop of the table between them.
C4_Witness == Len(acked) >= 2

\* C5 as stated: an ingest whose body arrived and does not parse as an event
\* is answered 400 "Invalid JSON format".
C5_MalformedIs400 ==
    \A r \in Req :
        (/\ IsDone(r)
         /\ Handler(req[r]) = "ingest"
         /\ ~from_slice(req[r].body).ok
         /\ req[r].err.kind # "HyperError")
        => req[r].resp = Response(400,
                                  Body("error", "Invalid JSON format", 0, <<>>))

\* The response the error table of the specification gives a failure kind.
Mapped(kind) ==
    CASE kind = "DbError" -> Response(500, Body("error", "Database error", 0, <<>>))
      [] kind = "JsonError" ->
            Response(400, Body("error", "Invalid JSON format", 0, <<>>))
      [] kind = "HyperError" ->
            Response(400, Body("error", "Request body error", 0, <<>>))
      [] kind = "NotFound" -> Response(404, Body("error", "Not Found", 0, <<>>))
      [] kind = "Internal" ->
            Response(500, Body("error", "Internal server error", 0, <<>>))

\* C6: a request has a response exactly when its handler has returned; a
\* failure is one of the five kinds and its response is the pair of its
\* kind, whatever the detail; a success is answered 200.
C6_TotalMapping ==
    \A r \in Req :
        /\ IsDone(r) <=> req[r].resp # NoResponse
        /\ IsDone(r) =>
              IF req[r].err.kind = "none" THEN req[r].resp.status = 200
              ELSE /\ req[r].err.kind \in {"DbError", "JsonError",
                                           "HyperError", "NotFound",
                                           "Internal"}
                   /\ req[r].resp = Mapped(req[r].err.kind)

\* Two database failures with different details, a malformed body and an
\* unmatched route were answered.
C6_Witness ==
    /\ \E r, q \in Req :
          /\ IsDone(r) /\ IsDone(q)
          /\ req[r].err.kind = "DbError" /\ req[q].err.kind = "DbError"
          /\ req[r].err.detail # req[q].err.detail
    /\ \E r \in Req : IsDone(r) /\ req[r].err.kind \in {"JsonError", "NotFound"}

\* C7: a /init that ran alone and reached the database answers 200
\* "initialized"; after such /init requests in a row, with nothing in
\* flight, the table exists and is empty; and a listing that follows them,
\* alone, returns the empty array.
C7_IdempotentReset ==
    /\ \A r \in Req :
          (/\ IsDone(r)
           /\ req[r].solo
           /\ req[r].err.detail # "Unreachable")
          => /\ Handler(req[r]) = "init" =>
                   req[r].resp = Response(200,
                       Body("status", "initialized", 0, <<>>))
             /\ (Handler(req[r]) = "events" /\ req[r].after >= 1) =>
                   req[r].resp = Response(200, Body("events", "", 0, <<>>))
    /\ (resetRun >= 1 /\ \A q \in Req : ~InFlight(q))
          => db = Database(TRUE, {}, 1)

\* /init succeeded twice in a row and the listing after them was empty.
C7_Witness ==
    \E r \in Req :
        /\ Succeeded(r)
        /\ Handler(req[r]) = "events"
        /\ req[r].solo
        /\ req[r].after = 2
        /\ Listed(r) = <<>>

\* C8 as stated: a handler that holds a connection is executing its one
\* database operation and waits on nothing else.
C8_ConnOnlyForDbOperation ==
    \A r \in Req :
        req[r].conn => req[r].pc \in {"drop", "create", "insert", "select"}

\* C9 as stated: a request that waits for a connection acquires one and is
\* answered.  A request that acquired its connection and waits for its own
\* body is not held against the claim.
C9_PoolProgress ==
    \A r \in Req :
        (req[r].pc = "conn") ~> (req[r].pc = "done" \/ req[r].pc = "body")

\* C10 as stated: with the database reachable, every /init succeeds, and so
\* does every well-formed request that finishes while a /init is between its
\* DROP and its CREATE on a table that existed (it has taken an ingest).
C10_ResetSafe ==
    [][\A r \in Req :
          (/\ Finishes(r)
           /\ Handler(req[r]) \in {"init", "ingest", "events"}
           /\ req'[r].err.kind \notin {"JsonError", "HyperError"}
           /\ req'[r].err.detail # "Unreachable"
           /\ \/ Handler(req[r]) = "init"
              \/ /\ issued # <<>>
                 /\ \E q \in Req \ {r} :
                       Handler(req[q]) = "init" /\ req[q].pc = "create")
          => req'[r].resp.status = 200]_vars

====
